---- MODULE Spec2Model ----
(***************************************************************************)
(* A model of src/proxy/app.py: the Chat-Completions proxy.  One inbound   *)
(* request is followed from its arrival to the end of its handling: the    *)
(* route handlers, the outbound call to the upstream provider, the lazy    *)
(* streaming generator and the HTTP clients the handler acquires.          *)
(*                                                                         *)
(* JSON objects are functions from a set of string keys to JSON literals   *)
(* (strings).  A document on the wire is [json, fmt, val]: whether the     *)
(* text parses, how it is laid out, and the value it denotes; parsing      *)
(* forgets the layout and rendering always produces the compact layout.    *)
(* Python dicts live in a heap of references, so that copying and aliasing *)
(* are distinguishable.                                                    *)
(***************************************************************************)
EXTENDS Integers, Sequences, FiniteSets, TLC

VARIABLES
    OPENAI_API_KEY,   \* the configured key: NoneKey, "" or a key
    route,            \* which endpoint the inbound request addresses
    wire,             \* the inbound request body as the client sent it
    pc,               \* position of the request's handling
    heap,             \* Python dicts by reference
    is_streaming,     \* chat_completions local
    use_responses_api,\* chat_completions local
    responses_body,   \* chat_completions local: a reference into heap
    result,           \* chat_completions local: a reference into heap
    endpoint,         \* chat_completions local: the URL called
    openClients,      \* httpx.AsyncClient instances currently open
    calls,            \* outbound HTTP calls issued, in order
    upOutcome,        \* "none" | "transport_error" | "response"
    upStatus,         \* status code of the upstream reply (0: none)
    upBody,           \* buffered body of the upstream reply
    upStream,         \* chunks the upstream stream carries
    upEnd,            \* how the upstream stream ends: "close" | "error"
    consumed,         \* chunks read from the upstream stream so far
    pending,          \* chunk yielded by the generator, not yet sent
    delivered,        \* chunks sent to the client
    response,         \* what the client has been given
    disconnected      \* the client went away during the streamed response

vars == <<OPENAI_API_KEY, route, wire, pc, heap, is_streaming, use_responses_api,
          responses_body, result, endpoint, openClients, calls, upOutcome,
          upStatus, upBody, upStream, upEnd, consumed, pending, delivered,
          response, disconnected>>

\* ------------------------------------------------------------------ bounds

MaxChunks == 3

\* --------------------------------------------------------------- constants

NoneKey == "None"
KeyValues == {NoneKey, "", "sk-test"}

OPENAI_BASE_URL == "https://api.openai.com/v1"

MODEL_MAPPING ==
    [m \in {"chatgpt-4o-latest", "gpt-4.1", "gpt-5.2-chat-latest"} |-> m]

Routes == {"root", "health", "models", "chat"}

\* ------------------------------------------------------------ JSON values

EmptyObj == [k \in {} |-> ""]

Objects(keys, vals) ==
    UNION { { o \in [D -> UNION {vals[k] : k \in keys}] :
                \A k \in D : o[k] \in vals[k] } : D \in SUBSET keys }

ReqKeys == {"model", "messages", "stream", "temperature"}
ReqVals ==
    [k \in ReqKeys |->
        CASE k = "model"       -> {"gpt-4.1", "gpt-4o"}
          [] k = "messages"    -> {"[user:hi]"}
          [] k = "stream"      -> {"true", "false"}
          [] k = "temperature" -> {"0.7"}]

ChatRequests == Objects(ReqKeys, ReqVals)

RespKeys == {"choices", "id"}
RespVals ==
    [k \in RespKeys |->
        CASE k = "choices" -> {"[assistant:hello]"}
          [] k = "id"      -> {"resp_1"}]

UpstreamObjects == Objects(RespKeys, RespVals)

\* A document on the wire.
NoBody == [json |-> FALSE, fmt |-> "none", val |-> EmptyObj]
NotJson == [json |-> FALSE, fmt |-> "text", val |-> EmptyObj]
Doc(fmt, v) == [json |-> TRUE, fmt |-> fmt, val |-> v]

\* json.loads / Response.json(): the value, whatever the layout.
CanParse(doc) == doc.json
Parse(doc) == doc.val
\* json.dumps as JSONResponse and httpx's json= do it: one compact layout.
Render(v) == Doc("compact", v)

WireRequests == {Doc(f, v) : f \in {"compact"}, v \in ChatRequests} \cup {NotJson}
UpstreamBodies ==
    {Doc(f, v) : f \in {"compact", "spaced"}, v \in UpstreamObjects} \cup {NotJson}

UpStatuses == {200, 201, 301, 429, 503}
Chunks == {"", "a", "b"}
SeqsUpTo(S, n) == UNION {[1..k -> S] : k \in 0..n}
UpstreamStreams == SeqsUpTo(Chunks, MaxChunks)

\* ------------------------------------------------------------------ heap

EmptyHeap == [r \in {} |-> EmptyObj]
Alloc(h, ref, v) == [r \in DOMAIN h \cup {ref} |-> IF r = ref THEN v ELSE h[r]]

\* --------------------------------------------------------- pure functions

\* MODEL_MAPPING.get(model): no fallback to the name itself.
map_model_name_NoDefault(model) ==
    IF model \in DOMAIN MODEL_MAPPING THEN MODEL_MAPPING[model] ELSE "None"

map_model_name(model) ==
    IF model \in DOMAIN MODEL_MAPPING THEN MODEL_MAPPING[model] ELSE model

\* dict.get(key, default)
Get(o, k, default) == IF k \in DOMAIN o THEN o[k] ELSE default

\* Truthiness of a JSON literal held in a Python variable.
Truthy(v) == v \notin {"false", "null", "0", ""}

\* chat_request.copy(): a new dict holding the same items.
dict_copy(h, src) == [heap |-> Alloc(h, "copy", h[src]), ret |-> "copy"]

convert_chat_to_responses_format(h, chat_request) ==
    LET c == dict_copy(h, chat_request)
        r == c.ret
        h2 == IF "model" \in DOMAIN c.heap[r]
              THEN [c.heap EXCEPT ![r] = [@ EXCEPT !["model"] = map_model_name(@)]]
              ELSE c.heap
    IN  [heap |-> h2, ret |-> r]

convert_responses_to_chat_format(h, responses_response) ==
    IF "choices" \in DOMAIN h[responses_response]
    THEN [heap |-> h, ret |-> responses_response]
    ELSE [heap |-> h, ret |-> responses_response]

\* -------------------------------------------------------------- responses

NoResponse == [status |-> 0, kind |-> "none", body |-> NoBody, state |-> "none"]

\* raise HTTPException(status_code, detail): detail is a fixed message
\* followed by interpolated text (the upstream's body text, or nothing).
HTTPException(status_code, msg, text) ==
    [status |-> status_code, kind |-> "error",
     body |-> [detail |-> msg, text |-> text], state |-> "complete"]

\* JSONResponse(content) and a returned dict: status 200, the content rendered.
JSONResponse(content) ==
    [status |-> 200, kind |-> "json", body |-> Render(content), state |-> "complete"]

\* StreamingResponse(..., media_type="text/event-stream") once its start is sent.
StreamingResponseStart ==
    [status |-> 200, kind |-> "sse", body |-> NoBody, state |-> "open"]

\* An exception no handler of the application catches: the server's own 500.
ServerError ==
    [status |-> 500, kind |-> "error",
     body |-> [detail |-> "Internal Server Error", text |-> NoBody],
     state |-> "complete"]

\* ----------------------------------------------------------- the upstream

Is2xx(s) == s >= 200 /\ s < 300

\* `OPENAI_API_KEY is None`: an empty key passes.
KeyMissing_IsNone == OPENAI_API_KEY = NoneKey

\* not OPENAI_API_KEY
KeyMissing == OPENAI_API_KEY \in {NoneKey, ""}

\* f"{OPENAI_BASE_URL}/chat/completions", f"{OPENAI_BASE_URL}/models"
Url(base, path) == <<base, path>>

Headers == [Authorization |-> <<"Bearer ", OPENAI_API_KEY>>]

\* A client constructed without `async with`: never closed.
Release_Leak(clients, c) == clients

\* Leaving an `async with httpx.AsyncClient(...) as client` block, by any way.
Release(clients, c) == clients \ {c}
Acquire(clients, c) == clients \cup {c}

\* A call reissued once after it was sent.
Issue_Twice(issued, call) == Append(Append(issued, call), call)

\* client.get / client.post / client.stream: one request leaves for the upstream.
Issue(issued, call) == Append(issued, call)

custom_models == <<"chatgpt-4o-latest", "gpt-4.1">>

ModelsReplies ==
    {Doc("compact", v) : v \in {[data |-> <<>>], [data |-> <<"gpt-4o">>],
                                 [object |-> <<"list">>]}} \cup {NotJson}

\* ------------------------------------------------------------------- Init

Quiet ==
    /\ heap = EmptyHeap
    /\ is_streaming = FALSE
    /\ use_responses_api = FALSE
    /\ responses_body = "none"
    /\ result = "none"
    /\ endpoint = <<>>
    /\ openClients = {}
    /\ calls = <<>>
    /\ upOutcome = "none"
    /\ upStatus = 0
    /\ upBody = NoBody
    /\ upStream = <<>>
    /\ upEnd = "none"
    /\ consumed = 0
    /\ pending = ""
    /\ delivered = <<>>
    /\ response = NoResponse
    /\ disconnected = FALSE

Init ==
    /\ OPENAI_API_KEY \in KeyValues
    /\ route \in Routes
    /\ wire \in IF route = "chat" THEN WireRequests ELSE {NoBody}
    /\ pc = "recv"
    /\ Quiet

\* -------------------------------------------------------- GET / and /health

root ==
    /\ pc = "recv" /\ route = "root"
    /\ response' = JSONResponse(
           [status |-> "ok", service |-> "OpenAI Responses API Proxy",
            openai_configured |-> IF KeyMissing THEN "false" ELSE "true"])
    /\ pc' = "done"
    /\ UNCHANGED <<OPENAI_API_KEY, route, wire, heap, is_streaming,
                   use_responses_api, responses_body, result, endpoint,
                   openClients, calls, upOutcome, upStatus, upBody, upStream,
                   upEnd, consumed, pending, delivered, disconnected>>

health ==
    /\ pc = "recv" /\ route = "health"
    /\ response' = IF KeyMissing
                   THEN HTTPException(500, "OPENAI_API_KEY not configured", NoBody)
                   ELSE JSONResponse([status |-> "healthy"])
    /\ pc' = "done"
    /\ UNCHANGED <<OPENAI_API_KEY, route, wire, heap, is_streaming,
                   use_responses_api, responses_body, result, endpoint,
                   openClients, calls, upOutcome, upStatus, upBody, upStream,
                   upEnd, consumed, pending, delivered, disconnected>>

\* ----------------------------------------------------------- GET /v1/models

\* Up to the await of client.get.
list_models ==
    /\ pc = "recv" /\ route = "models"
    /\ IF KeyMissing
       THEN /\ response' = HTTPException(401, "OPENAI_API_KEY not set", NoBody)
            /\ pc' = "done"
            /\ UNCHANGED <<openClients, calls>>
       ELSE /\ openClients' = Acquire(openClients, "models")
            /\ calls' = Issue(calls,
                   [method |-> "GET", url |-> Url(OPENAI_BASE_URL, "/models"),
                    headers |-> Headers, body |-> NoBody, stream |-> FALSE,
                    timeout |-> "30.0"])
            /\ pc' = "models_wait"
            /\ UNCHANGED response
    /\ UNCHANGED <<OPENAI_API_KEY, route, wire, heap, is_streaming,
                   use_responses_api, responses_body, result, endpoint,
                   upOutcome, upStatus, upBody, upStream, upEnd, consumed,
                   pending, delivered, disconnected>>

\* The upstream's answer to client.get, and the rest of the handler.
list_models_reply ==
    /\ pc = "models_wait"
    /\ \/ \* httpx.HTTPError: a transport failure
          /\ upOutcome' = "transport_error"
          /\ UNCHANGED <<upStatus, upBody, heap, result>>
          /\ response' = HTTPException(502, "Error fetching models from OpenAI: ", NoBody)
       \/ \E s \in UpStatuses, b \in ModelsReplies :
          /\ upOutcome' = "response"
          /\ upStatus' = s
          /\ upBody' = b
          /\ IF ~Is2xx(s)
             THEN \* raise_for_status: HTTPStatusError is an httpx.HTTPError
                  /\ response' = HTTPException(502, "Error fetching models from OpenAI: ", NoBody)
                  /\ UNCHANGED <<heap, result>>
             ELSE IF ~CanParse(b)
             THEN \* response.json() raises a ValueError, which nothing catches
                  /\ response' = ServerError
                  /\ UNCHANGED <<heap, result>>
             ELSE LET models_data == Parse(b)
                      merged == IF "data" \in DOMAIN models_data
                                THEN [models_data EXCEPT !["data"] = @ \o custom_models]
                                ELSE models_data
                  IN  /\ heap' = Alloc(heap, "result", merged)
                      /\ result' = "result"
                      /\ response' = JSONResponse(merged)
    /\ openClients' = Release(openClients, "models")
    /\ pc' = "done"
    /\ UNCHANGED <<OPENAI_API_KEY, route, wire, is_streaming, use_responses_api,
                   responses_body, endpoint, calls, upStream, upEnd, consumed,
                   pending, delivered, disconnected>>

\* ------------------------------------------------ POST /v1/chat/completions

\* Mapped models sent to a Responses endpoint of their own.
Endpoint_Responses(use) ==
    IF use THEN Url(OPENAI_BASE_URL, "/responses")
           ELSE Url(OPENAI_BASE_URL, "/chat/completions")

\* The endpoint chosen in either branch of `if use_responses_api`.
Endpoint(use) ==
    IF use THEN Url(OPENAI_BASE_URL, "/chat/completions")
           ELSE Url(OPENAI_BASE_URL, "/chat/completions")

\* The outbound POST, as client.post and client.stream issue it.
ChatCall(url, body_ref, h, streamed) ==
    [method |-> "POST", url |-> url, headers |-> Headers,
     body |-> Render(h[body_ref]), stream |-> streamed,
     timeout |-> IF streamed THEN "None" ELSE "120.0"]

\* The key check, up to the await of request.json().
chat_completions ==
    /\ pc = "recv" /\ route = "chat"
    /\ IF KeyMissing
       THEN /\ response' = HTTPException(401, "OPENAI_API_KEY not set", NoBody)
            /\ pc' = "done"
       ELSE /\ pc' = "read_body"
            /\ UNCHANGED response
    /\ UNCHANGED <<OPENAI_API_KEY, route, wire, heap, is_streaming,
                   use_responses_api, responses_body, result, endpoint,
                   openClients, calls, upOutcome, upStatus, upBody, upStream,
                   upEnd, consumed, pending, delivered, disconnected>>

\* From the parsed body to the next await: client.post in non-streaming mode,
\* the return of the StreamingResponse in streaming mode.
chat_parse ==
    /\ pc = "read_body"
    /\ IF ~CanParse(wire)
       THEN \* request.json() raises: except Exception
            /\ response' = HTTPException(500, "Internal error: ", NoBody)
            /\ pc' = "done"
            /\ UNCHANGED <<heap, is_streaming, use_responses_api, responses_body,
                           endpoint, openClients, calls>>
       ELSE LET h0 == Alloc(heap, "body", Parse(wire))
                model == Get(h0["body"], "model", "")
                streaming == Truthy(Get(h0["body"], "stream", "false"))
                use == model \in DOMAIN MODEL_MAPPING
                conv == IF use THEN convert_chat_to_responses_format(h0, "body")
                               ELSE [heap |-> h0, ret |-> "body"]
                outer == Acquire(openClients, "outer")
            IN  /\ heap' = conv.heap
                /\ is_streaming' = streaming
                /\ use_responses_api' = use
                /\ responses_body' = conv.ret
                /\ endpoint' = Endpoint(use)
                /\ IF streaming
                   THEN \* the generator is created, not run; the handler
                        \* returns and leaves the outer `async with`
                        /\ openClients' = Release(outer, "outer")
                        /\ UNCHANGED calls
                        /\ pc' = "resp_ready"
                   ELSE /\ openClients' = Acquire(outer, "inner")
                        /\ calls' = Issue(calls,
                               ChatCall(Endpoint(use), conv.ret, conv.heap, FALSE))
                        /\ pc' = "post_wait"
                /\ UNCHANGED response
    /\ UNCHANGED <<OPENAI_API_KEY, route, wire, result, upOutcome, upStatus,
                   upBody, upStream, upEnd, consumed, pending, delivered,
                   disconnected>>

\* Every upstream HTTP error reported as a bad gateway.
StatusErrorCode_BadGateway(upstream_status) == 502

\* The status an upstream HTTPStatusError is turned into.
StatusErrorCode(upstream_status) == upstream_status

\* The status a failure other than an HTTPStatusError is turned into.
UnexpectedErrorCode == 500

\* The upstream's answer to client.post, and the rest of the handler.
chat_post_reply ==
    /\ pc = "post_wait"
    /\ \/ \* a transport failure raised by client.post: except Exception
          /\ upOutcome' = "transport_error"
          /\ UNCHANGED <<upStatus, upBody, heap, result>>
          /\ response' = HTTPException(UnexpectedErrorCode, "Internal error: ", NoBody)
       \/ \E s \in UpStatuses, b \in UpstreamBodies :
          /\ upOutcome' = "response"
          /\ upStatus' = s
          /\ upBody' = b
          /\ IF ~Is2xx(s)
             THEN \* raise_for_status: except httpx.HTTPStatusError
                  /\ response' = HTTPException(StatusErrorCode(s), "OpenAI API error: ", b)
                  /\ UNCHANGED <<heap, result>>
             ELSE IF ~CanParse(b)
             THEN \* response.json() raises: except Exception
                  /\ response' = HTTPException(UnexpectedErrorCode, "Internal error: ", NoBody)
                  /\ UNCHANGED <<heap, result>>
             ELSE LET h1 == Alloc(heap, "result", Parse(b))
                      conv == IF use_responses_api
                              THEN convert_responses_to_chat_format(h1, "result")
                              ELSE [heap |-> h1, ret |-> "result"]
                  IN  /\ heap' = conv.heap
                      /\ result' = conv.ret
                      /\ response' = JSONResponse(conv.heap[conv.ret])
    /\ openClients' = Release(Release(openClients, "inner"), "outer")
    /\ pc' = "done"
    /\ UNCHANGED <<OPENAI_API_KEY, route, wire, is_streaming, use_responses_api,
                   responses_body, endpoint, calls, upStream, upEnd, consumed,
                   pending, delivered, disconnected>>

\* ------------------------------------------------------ the streaming relay

\* The server starts the StreamingResponse: status and headers go out before
\* the generator is run.
stream_start ==
    /\ pc = "resp_ready"
    /\ response' = StreamingResponseStart
    /\ pc' = "gen_start"
    /\ UNCHANGED <<OPENAI_API_KEY, route, wire, heap, is_streaming,
                   use_responses_api, responses_body, result, endpoint,
                   openClients, calls, upOutcome, upStatus, upBody, upStream,
                   upEnd, consumed, pending, delivered, disconnected>>

\* stream_generator's first step, up to the await of client.stream.
stream_generator_open ==
    /\ pc = "gen_start"
    /\ openClients' = Acquire(openClients, "inner")
    /\ calls' = Issue(calls, ChatCall(endpoint, responses_body, heap, TRUE))
    /\ pc' = "stream_wait"
    /\ UNCHANGED <<OPENAI_API_KEY, route, wire, heap, is_streaming,
                   use_responses_api, responses_body, result, endpoint,
                   upOutcome, upStatus, upBody, upStream, upEnd, consumed,
                   pending, delivered, response, disconnected>>

\* An exception leaving stream_generator: the handler has returned, so none of
\* its except clauses sees it; the response, already started, is cut off.
StreamFailure(resp) == [resp EXCEPT !.state = "aborted"]

\* The upstream's answer to client.stream: its status line and headers.
stream_generator_reply ==
    /\ pc = "stream_wait"
    /\ \/ \* a transport failure raised by client.stream
          /\ upOutcome' = "transport_error"
          /\ UNCHANGED <<upStatus, upBody, upStream, upEnd>>
          /\ openClients' = Release(openClients, "inner")
          /\ response' = StreamFailure(response)
          /\ pc' = "done"
       \/ \E s \in UpStatuses :
          /\ upOutcome' = "response"
          /\ upStatus' = s
          /\ IF ~Is2xx(s)
             THEN \* response.raise_for_status() raises inside the generator
                  /\ \E b \in UpstreamBodies : upBody' = b
                  /\ UNCHANGED <<upStream, upEnd>>
                  /\ openClients' = Release(openClients, "inner")
                  /\ response' = StreamFailure(response)
                  /\ pc' = "done"
             ELSE /\ \E st \in UpstreamStreams : upStream' = st
                  /\ \E e \in {"close", "error"} : upEnd' = e
                  /\ UNCHANGED <<upBody, openClients, response>>
                  /\ pc' = "reading"
    /\ UNCHANGED <<OPENAI_API_KEY, route, wire, heap, is_streaming,
                   use_responses_api, responses_body, result, endpoint, calls,
                   consumed, pending, delivered, disconnected>>

\* No `if chunk:` test: every chunk is yielded.
Forwarded_All(chunk) == TRUE

\* `if chunk:` in stream_generator
Forwarded(chunk) == chunk # ""

\* One step of `async for chunk in response.aiter_bytes()`.
stream_generator_next ==
    /\ pc = "reading"
    /\ IF consumed < Len(upStream)
       THEN LET chunk == upStream[consumed + 1]
            IN  /\ consumed' = consumed + 1
                /\ IF Forwarded(chunk)
                   THEN pending' = chunk /\ pc' = "yielded"
                   ELSE UNCHANGED pending /\ pc' = "reading"
                /\ UNCHANGED <<openClients, response>>
       ELSE \* the upstream closes, or the read fails: both leave the generator
            /\ openClients' = Release(openClients, "inner")
            /\ response' = IF upEnd = "close"
                           THEN [response EXCEPT !.state = "complete"]
                           ELSE StreamFailure(response)
            /\ pc' = "done"
            /\ UNCHANGED <<consumed, pending>>
    /\ UNCHANGED <<OPENAI_API_KEY, route, wire, heap, is_streaming,
                   use_responses_api, responses_body, result, endpoint, calls,
                   upOutcome, upStatus, upBody, upStream, upEnd, delivered,
                   disconnected>>

\* The server sends the yielded chunk to the client and asks for the next.
stream_send ==
    /\ pc = "yielded"
    /\ delivered' = Append(delivered, pending)
    /\ pending' = ""
    /\ pc' = "reading"
    /\ UNCHANGED <<OPENAI_API_KEY, route, wire, heap, is_streaming,
                   use_responses_api, responses_body, result, endpoint,
                   openClients, calls, upOutcome, upStatus, upBody, upStream,
                   upEnd, consumed, response, disconnected>>

\* The client disconnects while the response is being streamed: the server
\* cancels the relay at the await it is suspended in.
\*  - Before the generator has run, nothing was acquired and nothing runs.
\*  - Inside the generator (awaiting the upstream), the cancellation unwinds
\*    both `async with` blocks.
\*  - At the yield (the server is sending), the generator stays suspended
\*    until it is closed (stream_generator_close).
client_disconnect ==
    /\ pc \in {"resp_ready", "gen_start", "stream_wait", "reading", "yielded"}
    /\ disconnected' = TRUE
    /\ response' = StreamFailure(response)
    /\ pending' = ""
    /\ IF pc = "yielded"
       THEN pc' = "abandoned" /\ UNCHANGED openClients
       ELSE pc' = "done" /\ openClients' = Release(openClients, "inner")
    /\ UNCHANGED <<OPENAI_API_KEY, route, wire, heap, is_streaming,
                   use_responses_api, responses_body, result, endpoint, calls,
                   upOutcome, upStatus, upBody, upStream, upEnd, consumed,
                   delivered>>

\* The suspended generator is closed (aclose, run by the event loop's
\* async-generator finalizer): GeneratorExit at the yield leaves both
\* `async with` blocks.
stream_generator_close ==
    /\ pc = "abandoned"
    /\ openClients' = Release(openClients, "inner")
    /\ pc' = "done"
    /\ UNCHANGED <<OPENAI_API_KEY, route, wire, heap, is_streaming,
                   use_responses_api, responses_body, result, endpoint, calls,
                   upOutcome, upStatus, upBody, upStream, upEnd, consumed,
                   pending, delivered, response, disconnected>>

\* ------------------------------------------------------- the specification

Next ==
    \/ root
    \/ health
    \/ list_models
    \/ list_models_reply
    \/ chat_completions
    \/ chat_parse
    \/ chat_post_reply
    \/ stream_start
    \/ stream_generator_open
    \/ stream_generator_reply
    \/ stream_generator_next
    \/ stream_send
    \/ client_disconnect
    \/ stream_generator_close

Spec == Init /\ [][Next]_vars

\* The event loop runs the finalizer of an abandoned generator.
FairSpec == Spec /\ WF_vars(stream_generator_close)

\* ------------------------------------------- the translators on their own

\* Every request body and every upstream object, handed to the translators
\* directly.
PureInit ==
    /\ OPENAI_API_KEY = "sk-test"
    /\ route = "fn"
    /\ pc = "fn_ready"
    /\ \E b \in ChatRequests, r \in UpstreamObjects :
          /\ wire = Render(b)
          /\ upBody = Render(r)
          /\ heap = Alloc(Alloc(EmptyHeap, "body", b), "result", r)
    /\ is_streaming = FALSE
    /\ use_responses_api = FALSE
    /\ responses_body = "none"
    /\ result = "none"
    /\ endpoint = <<>>
    /\ openClients = {}
    /\ calls = <<>>
    /\ upOutcome = "none"
    /\ upStatus = 0
    /\ upStream = <<>>
    /\ upEnd = "none"
    /\ consumed = 0
    /\ pending = ""
    /\ delivered = <<>>
    /\ response = NoResponse
    /\ disconnected = FALSE

call_convert_request ==
    /\ pc = "fn_ready"
    /\ LET c == convert_chat_to_responses_format(heap, "body")
       IN  heap' = c.heap /\ responses_body' = c.ret
    /\ pc' = "fn_request_done"
    /\ UNCHANGED <<OPENAI_API_KEY, route, wire, is_streaming, use_responses_api,
                   result, endpoint, openClients, calls, upOutcome, upStatus,
                   upBody, upStream, upEnd, consumed, pending, delivered,
                   response, disconnected>>

call_convert_response ==
    /\ pc = "fn_ready"
    /\ LET c == convert_responses_to_chat_format(heap, "result")
       IN  heap' = c.heap /\ result' = c.ret
    /\ pc' = "fn_response_done"
    /\ UNCHANGED <<OPENAI_API_KEY, route, wire, is_streaming, use_responses_api,
                   responses_body, endpoint, openClients, calls, upOutcome,
                   upStatus, upBody, upStream, upEnd, consumed, pending,
                   delivered, response, disconnected>>

PureNext == call_convert_request \/ call_convert_response

PureSpec == PureInit /\ [][PureNext]_vars

\* ================================================================= claims

KeyUnconfigured == OPENAI_API_KEY = NoneKey \/ OPENAI_API_KEY = ""

ChatUrl == <<"https://api.openai.com/v1", "/chat/completions">>

NonEmpty(chunks) == SelectSeq(chunks, LAMBDA c : c # "")

IsPrefix(s, t) == Len(s) <= Len(t) /\ \A i \in 1..Len(s) : s[i] = t[i]

ChatDone == route = "chat" /\ pc = "done"

\* C1. With the API key unconfigured no upstream call is ever made, the
\* handling goes from arrival straight to its end, and it ends with 401 for
\* POST /v1/chat/completions (whatever the body) and GET /v1/models and with
\* 500 for GET /health, each an ordinary error response.
C1_KeyUnsetRejected ==
    KeyUnconfigured =>
        /\ calls = <<>>
        /\ openClients = {}
        /\ pc \in {"recv", "done"}
        /\ pc = "done" /\ route \in {"chat", "models", "health"} =>
              /\ response.kind = "error"
              /\ response.state = "complete"
              /\ response.status = IF route = "health" THEN 500 ELSE 401

C1_Witness ==
    /\ KeyUnconfigured /\ ChatDone
    /\ CanParse(wire) /\ Get(Parse(wire), "stream", "false") = "true"
    /\ response.status = 401 /\ calls = <<>>

\* C2. A streaming request whose upstream answers non-2xx before any chunk
\* was relayed ends with an error response carrying the upstream's status
\* and body text, and nothing of the stream reaches the client.
C2_StreamErrorSurfaced ==
    ChatDone /\ is_streaming /\ ~disconnected
             /\ upOutcome = "response" /\ ~Is2xx(upStatus) =>
        /\ delivered = <<>>
        /\ response.kind = "error"
        /\ response.status = upStatus
        /\ response.body.text = upBody

\* C3. An upstream transport failure ends the request with HTTP 502, on
\* POST /v1/chat/completions as on GET /v1/models, after exactly one call.
C3_TransportFailureIs502 ==
    pc = "done" /\ upOutcome = "transport_error" /\ ~disconnected =>
        /\ response.kind = "error"
        /\ response.status = 502
        /\ Len(calls) = 1

\* C4. In non-streaming mode every non-2xx upstream status s ends the
\* request with status s and an error payload embedding the upstream's body
\* text, after exactly one call.
C4_StatusPropagated ==
    ChatDone /\ ~is_streaming /\ upOutcome = "response" /\ ~Is2xx(upStatus) =>
        /\ response.kind = "error"
        /\ response.status = upStatus
        /\ response.body.text = upBody
        /\ Len(calls) = 1

C4_Witness ==
    /\ ChatDone /\ ~is_streaming /\ upOutcome = "response" /\ upStatus = 429
    /\ upBody = NotJson
    /\ response.status = 429 /\ response.body.text = NotJson

\* C5. At every moment of a relay the chunks delivered to the client are a
\* prefix of the non-empty chunks read from the upstream so far, none of them
\* empty; when the upstream has closed, they are exactly the upstream's
\* non-empty chunks.
C5_RelayOrder ==
    /\ IsPrefix(delivered, NonEmpty(SubSeq(upStream, 1, consumed)))
    /\ \A i \in 1..Len(delivered) : delivered[i] # ""
    /\ Len(NonEmpty(SubSeq(upStream, 1, consumed))) - Len(delivered) <= 1
    /\ pc = "done" /\ response.kind = "sse" /\ response.state = "complete" =>
          delivered = NonEmpty(upStream)

C5_Witness ==
    /\ pc = "done" /\ response.kind = "sse" /\ response.state = "complete"
    /\ Len(upStream) = 3 /\ Len(delivered) = 3 /\ delivered = upStream

\* C6. convert_chat_to_responses_format returns a mapping with the keys of
\* its input, every key but `model` with the input's value and `model` with
\* the mapped name (the name itself when unmapped), and leaves its input as
\* it was.
C6_RequestTranslation ==
    pc = "fn_request_done" =>
        LET in == Parse(wire)
            out == heap[responses_body]
        IN  /\ DOMAIN out = DOMAIN in
            /\ \A k \in DOMAIN in \ {"model"} : out[k] = in[k]
            /\ "model" \in DOMAIN in =>
                  out["model"] = IF in["model"] \in DOMAIN MODEL_MAPPING
                                 THEN MODEL_MAPPING[in["model"]]
                                 ELSE in["model"]
            /\ heap["body"] = in

C6_Witness ==
    /\ pc = "fn_request_done"
    /\ DOMAIN Parse(wire) = ReqKeys
    /\ Parse(wire)["model"] \notin DOMAIN MODEL_MAPPING
    /\ heap[responses_body] = Parse(wire)
    /\ responses_body # "body"

C9_ResponseHasChoices ==
    pc = "fn_response_done" =>
        /\ "choices" \in DOMAIN Parse(upBody) =>
              result = "result" /\ heap[result] = Parse(upBody)
        /\ "choices" \in DOMAIN heap[result]

====
